---- MODULE Spec2Model ----
(***************************************************************************)
(* NotificationService (notification-service.ts): the notification store,  *)
(* the four polled adapters, the channel dispatcher, persistence to        *)
(* localStorage and the query / mutation API.                              *)
(*                                                                         *)
(* JavaScript runs one callback at a time: an async method runs without    *)
(* interruption up to its next `await`, where it is suspended and any      *)
(* other callback (a timer, a UI handler, another suspended method) may    *)
(* run.  Each action below is one such uninterrupted run.                  *)
(*                                                                         *)
(* Notification objects live in `heap` and are referred to by object       *)
(* identity (oid), because a suspended sendNotification keeps a reference  *)
(* to its notification whether or not the collection still holds it.       *)
(* Time is counted in minutes.                                             *)
(***************************************************************************)
EXTENDS Integers, Sequences, FiniteSets, TLC

\* ---------------------------------------------------------------- bounds
\* The number of things the environment does to the service in one run:
\* timer ticks that emit events, API calls, advances of the clock.
MaxEvents == 3

\* Where the timers are followed tick by tick: the number of five-minute
\* steps of the clock, and the number of notifications the polls emit.
MaxTicks == 12
MaxAlerts == 2

\* ------------------------------------------------------ program constants
MaxNotifications == 100
MaxStored == 50
Day == 1440
DeadlineDays == 7
WeatherPeriod == 5
PricePeriod == 10
SeasonalPeriod == 60
GovernmentPeriod == 30

\* ------------------------------------------------------- model parameters
\* The clock is read at the moments when all four timers are due (the
\* longest period, that of the seasonal timer, is a multiple of the others):
\* it starts at such a moment and advances by an hour or by a day.  A poll in
\* between that emits nothing changes nothing.
TimeSteps == {SeasonalPeriod, Day}
StartDate == [month |-> 9, day |-> 30]

Adapters == {"weather", "price", "seasonal", "government"}
UserIds == {"farmer1", "farmer2"}
Permissions == {"default", "granted", "denied"}
SimulatedSeverities == {"moderate", "severe"}
SimulatedPriceChanges == {-12, 5}

\* ------------------------------------------------------------ JS values
Undefined == [kind |-> "undefined"]
DateOf(t) == [kind |-> "Date", t |-> t]
StringOf(t) == [kind |-> "string", t |-> t]
ErrorOf(m) == [kind |-> "error", message |-> m]
None == <<>>
Some(v) == <<v>>

Min(a, b) == IF a < b THEN a ELSE b
Abs(x) == IF x < 0 THEN -x ELSE x
Range(s) == {s[i] : i \in DOMAIN s}

VARIABLES
    now,                    \* Date.now(), in minutes
    events,                 \* what the environment has done so far (a count)
    notificationSupported,  \* 'Notification' in window
    notificationPermission, \* this.notificationPermission
    constructible,          \* `new Notification(..)` works on this platform
    quotaExceeded,          \* localStorage.setItem throws
    firedNow,               \* per adapter: it emitted events at the present time
    heap,                   \* oid -> Notification object (with its history)
    notifications,          \* this.notifications: sequence of oids
    nextOid,                \* next object identity
    appends,                \* number of sendNotification calls so far
    storedNotifications,    \* localStorage['notifications']
    storedConfigs,          \* localStorage['notificationConfig_<userId>']
    userConfigs,            \* this.userConfigs
    task,                   \* per adapter: its suspended poll
    announced,              \* per append: 'newNotification' events dispatched
    escaped,                \* an exception left a poll (unhandled rejection)
    ret                     \* outcome of the step, when it was an API call

vars == <<now, events, notificationSupported, notificationPermission,
          constructible, quotaExceeded, firedNow, heap, notifications, nextOid, appends,
          storedNotifications, storedConfigs, userConfigs, task, announced,
          escaped, ret>>

clockVars == <<now>>
permVars == <<notificationSupported, notificationPermission, constructible>>
configVars == <<storedConfigs, userConfigs>>
storeVars == <<heap, notifications, nextOid, appends, storedNotifications,
               announced, escaped>>
timerVars == <<firedNow, task>>

\* ------------------------------------------------------------- calendar
\* new Date(): months of 30 days, counted from StartDate.
DayIndex(t) == (StartDate.day - 1) + (t \div Day)
MonthOf(t) == ((StartDate.month - 1 + (DayIndex(t) \div 30)) % 12) + 1
DateOfMonth(t) == (DayIndex(t) % 30) + 1
WeekOf(t) == (DateOfMonth(t) + 6) \div 7

\* ------------------------------------------------------------- adapters
\* generateSimulatedWeatherAlerts: no alert, or one alert whose id is the
\* time of the poll.
GenerateSimulatedWeatherAlerts(t) ==
    {<<>>} \cup
    {<<[id |-> <<"weather", t>>, severity |-> s, endTime |-> DateOf(t + Day)]>> :
        s \in SimulatedSeverities}

\* generateSimulatedPriceAlerts: no alert, or one alert.
GenerateSimulatedPriceAlerts(t) ==
    {<<>>} \cup
    {<<[id |-> <<"price", t>>, changePercentage |-> c]>> : c \in SimulatedPriceChanges}

SeasonalTipsDatabase ==
    << [season |-> "monsoon", months |-> {6, 7, 8, 9},
        tips |-> << [category |-> "irrigation", importance |-> "critical"],
                    [category |-> "pest-control", importance |-> "recommended"] >>],
       [season |-> "winter", months |-> {12, 1, 2},
        tips |-> << [category |-> "planting", importance |-> "critical"] >>] >>

\* The tips of one season that the random draw lets through, in database order.
TipsOfSeason(sd, month, week, shown) ==
    LET all == [i \in 1..Len(sd.tips) |->
                   [id |-> <<"tip", month, week, i - 1>>,
                    season |-> sd.season,
                    importance |-> sd.tips[i].importance]]
    IN SelectSeq(all, LAMBDA tip : <<tip.season, tip.id[4]>> \in shown)

\* generateSeasonalTips(date); `shown` is the set of (season, index) pairs for
\* which Math.random() < 0.1.
GenerateSeasonalTips(t, shown) ==
    LET month == MonthOf(t)
        week == WeekOf(t)
        per(k) == IF month \in SeasonalTipsDatabase[k].months
                  THEN TipsOfSeason(SeasonalTipsDatabase[k], month, week, shown)
                  ELSE <<>>
    IN per(1) \o per(2)

TipSlots ==
    UNION {{<<SeasonalTipsDatabase[k].season, i - 1>> :
              i \in 1..Len(SeasonalTipsDatabase[k].tips)} :
           k \in 1..Len(SeasonalTipsDatabase)}

\* generateGovernmentUpdates: no update, or one, with a deadline a week ahead
\* when it is a deadline reminder.
GenerateGovernmentUpdates(t) ==
    {<<>>} \cup
    {<<[id |-> <<"gov", t>>,
        deadline |-> IF r THEN DateOf(t + DeadlineDays * Day) ELSE Undefined]>> :
        r \in BOOLEAN}

\* What one poll of adapter a may emit at time t.
Polls(a, t) ==
    CASE a = "weather" -> GenerateSimulatedWeatherAlerts(t)
      [] a = "price" -> GenerateSimulatedPriceAlerts(t)
      [] a = "seasonal" -> {GenerateSeasonalTips(t, shown) : shown \in SUBSET TipSlots}
      [] a = "government" -> GenerateGovernmentUpdates(t)

\* ----------------------------------------------------------- normalizer
NewChannel(c) ==
    [channel |-> c, enabled |-> TRUE, delivered |-> FALSE,
     deliveredAt |-> Undefined, error |-> Undefined]

\* `!== 'moderate'` in place of `=== 'extreme'`.
WeatherAlertNotModerate(alert, t) ==
    [id |-> <<"notif">> \o alert.id,
     type |-> "weather",
     category |-> IF alert.severity # "moderate" THEN "alert" ELSE "warning",
     priority |-> IF alert.severity # "moderate" THEN "critical" ELSE "high",
     timestamp |-> DateOf(t),
     expiresAt |-> alert.endTime,
     isRead |-> FALSE,
     actionRequired |-> TRUE,
     deliveryChannels |-> <<NewChannel("push"), NewChannel("in-app")>>]

CreateNotificationFromWeatherAlert(alert, t) ==
    [id |-> <<"notif">> \o alert.id,
     type |-> "weather",
     category |-> IF alert.severity = "extreme" THEN "alert" ELSE "warning",
     priority |-> IF alert.severity = "extreme" THEN "critical" ELSE "high",
     timestamp |-> DateOf(t),
     expiresAt |-> alert.endTime,
     isRead |-> FALSE,
     actionRequired |-> TRUE,
     deliveryChannels |-> <<NewChannel("push"), NewChannel("in-app")>>]

\* The thresholds without Math.abs: a fall never passes them.
PriceAlertSigned(alert, t) ==
    [id |-> <<"notif">> \o alert.id,
     type |-> "price",
     category |-> IF alert.changePercentage > 10 THEN "alert" ELSE "info",
     priority |-> IF alert.changePercentage > 15 THEN "high" ELSE "medium",
     timestamp |-> DateOf(t),
     expiresAt |-> Undefined,
     isRead |-> FALSE,
     actionRequired |-> TRUE,
     deliveryChannels |-> <<NewChannel("push"), NewChannel("in-app")>>]

CreateNotificationFromPriceAlert(alert, t) ==
    [id |-> <<"notif">> \o alert.id,
     type |-> "price",
     category |-> IF Abs(alert.changePercentage) > 10 THEN "alert" ELSE "info",
     priority |-> IF Abs(alert.changePercentage) > 15 THEN "high" ELSE "medium",
     timestamp |-> DateOf(t),
     expiresAt |-> Undefined,
     isRead |-> FALSE,
     actionRequired |-> TRUE,
     deliveryChannels |-> <<NewChannel("push"), NewChannel("in-app")>>]

CreateNotificationFromSeasonalTip(tip, t) ==
    [id |-> <<"notif">> \o tip.id,
     type |-> "seasonal",
     category |-> "tip",
     priority |-> IF tip.importance = "critical" THEN "high" ELSE "medium",
     timestamp |-> DateOf(t),
     expiresAt |-> Undefined,
     isRead |-> FALSE,
     actionRequired |-> FALSE,
     deliveryChannels |-> <<NewChannel("in-app"), NewChannel("push")>>]

\* actionRequired: true in place of !!update.deadline.
GovernmentUpdateActionAlways(update, t) ==
    [id |-> <<"notif">> \o update.id,
     type |-> "government",
     category |-> "update",
     priority |-> IF update.deadline # Undefined THEN "high" ELSE "medium",
     timestamp |-> DateOf(t),
     expiresAt |-> update.deadline,
     isRead |-> FALSE,
     actionRequired |-> TRUE,
     deliveryChannels |-> <<NewChannel("push"), NewChannel("in-app")>>]

CreateNotificationFromGovernmentUpdate(update, t) ==
    [id |-> <<"notif">> \o update.id,
     type |-> "government",
     category |-> "update",
     priority |-> IF update.deadline # Undefined THEN "high" ELSE "medium",
     timestamp |-> DateOf(t),
     expiresAt |-> update.deadline,
     isRead |-> FALSE,
     actionRequired |-> update.deadline # Undefined,
     deliveryChannels |-> <<NewChannel("push"), NewChannel("in-app")>>]

\* The createNotificationFrom... method that a poll of adapter a calls.
CreateNotification(a, event, t) ==
    CASE a = "weather" -> CreateNotificationFromWeatherAlert(event, t)
      [] a = "price" -> CreateNotificationFromPriceAlert(event, t)
      [] a = "seasonal" -> CreateNotificationFromSeasonalTip(event, t)
      [] a = "government" -> CreateNotificationFromGovernmentUpdate(event, t)
      [] OTHER -> event.notification

\* ------------------------------------------------------------ the store
Tasks == Adapters \cup {"direct"}

\* A poll: where it is suspended, the events still to process, the object
\* and entry being delivered, how the awaited push settled; and, for the
\* record, the number of the poll and of the event being processed.
IdleTask ==
    [pc |-> "idle", queue |-> <<>>, cur |-> 0, ch |-> 0, settled |-> "none",
     poll |-> 0, idx |-> 0]

\* A heap cell: the Notification object, and what the model remembers about
\* it: its append number, the poll and position it came from, whether it is
\* an object parsed from storage, and for each channel entry how often it
\* was attempted and whether push was permitted at that moment.
Cell(n, k, a, poll, idx) ==
    [obj |-> n, seq |-> k, parsed |-> FALSE,
     src |-> [adapter |-> a, poll |-> poll, idx |-> idx],
     attempts |-> [i \in DOMAIN n.deliveryChannels |->
                      [count |-> 0, granted |-> FALSE]]]

\* The objects still referenced: by the collection or by a suspended poll.
Collect(h, l, t) ==
    [o \in (Range(l) \cup {t[a].cur : a \in Tasks}) \ {0} |-> h[o]]

\* push in place of unshift: the new record goes to the end.
PushLast(l, o) == l \o <<o>>

\* this.notifications.unshift(notification)
Unshift(l, o) == <<o>> \o l

\* slice(-100) in place of slice(0, 100): the newest record is dropped.
TruncateNewest(l) ==
    IF Len(l) > MaxNotifications THEN SubSeq(l, Len(l) - MaxNotifications + 1, Len(l))
    ELSE l

\* if (length > 100) this.notifications = this.notifications.slice(0, 100)
Truncate(l) ==
    IF Len(l) > MaxNotifications THEN SubSeq(l, 1, MaxNotifications) ELSE l

\* JSON.stringify of a Date is its ISO string; undefined stays absent.
JSONDate(v) == IF v.kind = "Date" THEN StringOf(v.t) ELSE v

ToJSON(n) ==
    LET chs == n.deliveryChannels
    IN [n EXCEPT !.timestamp = JSONDate(n.timestamp),
                 !.expiresAt = JSONDate(n.expiresAt),
                 !.deliveryChannels =
                     [i \in DOMAIN chs |->
                        [chs[i] EXCEPT !.deliveredAt = JSONDate(chs[i].deliveredAt)]]]

\* No map after JSON.parse: timestamp and expiresAt stay strings.
KeepParsed(j) == j

\* The map of loadNotificationsFromStorage: timestamp and expiresAt become
\* Dates again, every other field is kept as parsed.
Revive(j) ==
    [j EXCEPT !.timestamp = DateOf(j.timestamp.t),
              !.expiresAt = IF j.expiresAt # Undefined
                            THEN DateOf(j.expiresAt.t) ELSE Undefined]

\* The whole collection is written, without slice(0, 50).
StoredWhole(l, h) ==
    [i \in 1..Len(l) |-> [h[l[i]] EXCEPT !.obj = ToJSON(h[l[i]].obj)]]

\* The value saveNotificationsToStorage writes: the first 50 records.
StoredSlice(l, h) ==
    [i \in 1..Min(Len(l), MaxStored) |-> [h[l[i]] EXCEPT !.obj = ToJSON(h[l[i]].obj)]]

\* saveNotificationsToStorage: a throwing localStorage.setItem is caught and
\* logged, and leaves what was stored before.
SaveNotificationsToStorage(l, h) ==
    IF ~quotaExceeded THEN Some(StoredSlice(l, h)) ELSE storedNotifications

\* No event is dispatched.
EmitNothing(an, k) == an

\* emitNotificationEvent for the record appended as number k.
EmitNotificationEvent(an, k) == [an EXCEPT ![k] = @ + 1]

\* ------------------------------------------------------------ dispatcher
\* sendPushNotification: how its promise settles.
SendPushNotification(permission, ctorThrows) ==
    IF permission # "granted" THEN "fulfilled"
    ELSE IF ctorThrows THEN "rejected" ELSE "fulfilled"

\* The switch of deliverThroughChannel: how the inner delivery settles.
InnerDelivery(channel, permission, ctorThrows) ==
    IF channel = "push" THEN SendPushNotification(permission, ctorThrows)
    ELSE "fulfilled"

\* deliverThroughChannel without `channel.deliveredAt = new Date()`: a
\* delivery that went through only sets the flag.
DeliverUndated(entry, settled, t) ==
    IF settled = "rejected"
    THEN [entry |-> [entry EXCEPT !.error = ErrorOf("Illegal constructor")],
          threw |-> FALSE]
    ELSE [entry |-> [entry EXCEPT !.delivered = TRUE], threw |-> FALSE]

\* deliverThroughChannel without its try/catch: the rejection goes on to
\* the caller and the entry is left as it was.
DeliverUncaught(entry, settled, t) ==
    IF settled = "rejected"
    THEN [entry |-> entry, threw |-> TRUE]
    ELSE [entry |-> [entry EXCEPT !.delivered = TRUE, !.deliveredAt = DateOf(t)],
          threw |-> FALSE]

\* deliverThroughChannel after the switch: the entry as it is left, and
\* whether an exception leaves the method.
DeliverThroughChannel(entry, settled, t) ==
    IF settled = "rejected"
    THEN [entry |-> [entry EXCEPT !.error = ErrorOf("Illegal constructor")],
          threw |-> FALSE]
    ELSE [entry |-> [entry EXCEPT !.delivered = TRUE, !.deliveredAt = DateOf(t)],
          threw |-> FALSE]

\* The loop without `if (channel.enabled)`: the next entry, enabled or not.
NextEntry(chs, i) == IF i <= Len(chs) THEN i ELSE 0

\* The first index >= i of an entry with enabled set, 0 when there is none.
NextEnabled(chs, i) ==
    IF \E j \in i..Len(chs) : chs[j].enabled
    THEN CHOOSE j \in i..Len(chs) :
            chs[j].enabled /\ \A k \in i..(j - 1) : ~chs[k].enabled
    ELSE 0

\* The poll of task a after sendNotification returned with `rest` to go.
AfterSend(rest, poll, idx) ==
    IF Len(rest) = 0 THEN IdleTask
    ELSE [pc |-> "await_send", queue |-> rest, cur |-> 0, ch |-> 0,
          settled |-> "none", poll |-> poll, idx |-> idx]

\* deliverThroughChannel runs to its end for entry j of object o.
Settle(a, o, j, h, l, tk, settled) ==
    LET r == DeliverThroughChannel(h[o].obj.deliveryChannels[j], settled, now)
        h1 == [h EXCEPT ![o].obj.deliveryChannels[j] = r.entry]
        t1 == IF r.threw
              THEN [tk EXCEPT ![a] = IdleTask]
              ELSE [tk EXCEPT ![a].pc = "await_deliver", ![a].cur = o,
                                ![a].ch = j, ![a].settled = "none"]
    IN /\ task' = t1
       /\ heap' = Collect(h1, l, t1)
       /\ notifications' = l
       /\ escaped' = (escaped \/ r.threw)
       /\ UNCHANGED storedNotifications

\* The loop of sendNotification from entry i on, up to the next await; after
\* the last enabled entry the collection is saved and the event dispatched.
DispatchFrom(a, o, i, h, l, tk, an) ==
    LET chs == h[o].obj.deliveryChannels
        j == NextEnabled(chs, i)
        done == [tk EXCEPT ![a] = AfterSend(tk[a].queue, tk[a].poll, tk[a].idx)]
        h1 == [h EXCEPT ![o].attempts[j] =
                   [count |-> @.count + 1,
                    granted |-> notificationPermission = "granted"]]
        pushing(settled) ==
            [tk EXCEPT ![a].pc = "await_push", ![a].cur = o, ![a].ch = j,
                       ![a].settled = settled]
    IN IF j = 0
       THEN /\ storedNotifications' = SaveNotificationsToStorage(l, h)
            /\ announced' = EmitNotificationEvent(an, h[o].seq)
            /\ task' = done
            /\ heap' = Collect(h, l, done)
            /\ notifications' = l
            /\ UNCHANGED escaped
       ELSE IF chs[j].channel = "push"
       THEN /\ LET settled == InnerDelivery("push", notificationPermission,
                                            ~constructible)
               IN /\ task' = pushing(settled)
                  /\ heap' = Collect(h1, l, pushing(settled))
            /\ notifications' = l
            /\ announced' = an
            /\ UNCHANGED <<storedNotifications, escaped>>
       ELSE /\ Settle(a, o, j, h1, l, tk,
                      InnerDelivery(chs[j].channel, notificationPermission, FALSE))
            /\ announced' = an

\* sendNotification up to its first await, for the notification made from
\* `event`, the idx-th event of poll number `poll`.
SendNotification(a, event, rest, poll, idx) ==
    LET n == CreateNotification(a, event, now)
        o == nextOid
        h1 == heap @@ (o :> Cell(n, appends + 1, a, poll, idx))
        l1 == Truncate(Unshift(notifications, o))
        tk == [task EXCEPT ![a] = [IdleTask EXCEPT !.queue = rest, !.poll = poll,
                                                   !.idx = idx]]
    IN /\ nextOid' = o + 1
       /\ appends' = appends + 1
       /\ DispatchFrom(a, o, 1, h1, l1, tk, Append(announced, 0))

\* ------------------------------------------------------- store mutations
IdOf(h, o) == h[o].obj.id

\* notification.isRead = !notification.isRead in place of = true.
ToggleRead(h, l, id) ==
    LET hits == {i \in DOMAIN l : h[l[i]].obj.id = id}
    IN IF hits = {} THEN h
       ELSE LET first == CHOOSE i \in hits : \A k \in hits : i <= k
            IN [h EXCEPT ![l[first]].obj.isRead = ~h[l[first]].obj.isRead]

\* markAsRead: the first record with that id, if any, gets isRead = true.
MarkRead(h, l, id) ==
    LET hits == {i \in DOMAIN l : IdOf(h, l[i]) = id}
    IN IF hits = {} THEN h
       ELSE LET first == CHOOSE i \in hits : \A k \in hits : i <= k
            IN [h EXCEPT ![l[first]].obj.isRead = TRUE]

\* The loop stops after the first record.
MarkHeadRead(h, l, userId) ==
    [o \in DOMAIN h |-> IF Len(l) > 0 /\ o = l[1]
                        THEN [h[o] EXCEPT !.obj.isRead = TRUE]
                        ELSE h[o]]

\* markAllAsRead: the userId is not looked at.
MarkAllRead(h, l, userId) ==
    [o \in DOMAIN h |-> IF o \in Range(l) THEN [h[o] EXCEPT !.obj.isRead = TRUE]
                        ELSE h[o]]

\* deleteNotification: filter(n => n.id !== notificationId)
DeleteById(h, l, id) == SelectSeq(l, LAMBDA o : IdOf(h, o) # id)

\* `>=` in place of `>`: a record that expires at this instant is kept.
EvictPast(h, l, t) ==
    SelectSeq(l, LAMBDA o : h[o].obj.expiresAt = Undefined
                            \/ h[o].obj.expiresAt.t >= t)

\* cleanup: filter(n => !n.expiresAt || n.expiresAt > now)
EvictExpired(h, l, t) ==
    SelectSeq(l, LAMBDA o : h[o].obj.expiresAt = Undefined
                            \/ h[o].obj.expiresAt.t > t)

\* --------------------------------------------------------------- queries
\* The filters argument: each field absent (None) or supplied (Some(v)).
NoFilters == [type |-> None, category |-> None, isRead |-> None, limit |-> None]

\* `if (filters?.type)`: an absent or empty string is falsy.
TruthyString(opt) == opt # None /\ opt[1] # ""

\* `if (filters?.limit)`: an absent or zero number is falsy.
TruthyNumber(opt) == opt # None /\ opt[1] # 0

\* Array.prototype.slice(0, n), n an integer.
Slice0(l, n) ==
    IF n >= 0 THEN SubSeq(l, 1, Min(n, Len(l)))
    ELSE SubSeq(l, 1, IF Len(l) + n > 0 THEN Len(l) + n ELSE 0)

\* getNotifications(userId, filters): a new array of the same objects.
GetNotifications(h, l, filters) ==
    LET byType == IF TruthyString(filters.type)
                  THEN SelectSeq(l, LAMBDA o : h[o].obj.type = filters.type[1])
                  ELSE l
        byCategory == IF TruthyString(filters.category)
                      THEN SelectSeq(byType, LAMBDA o :
                                       h[o].obj.category = filters.category[1])
                      ELSE byType
        byRead == IF filters.isRead # None
                  THEN SelectSeq(byCategory, LAMBDA o :
                                   h[o].obj.isRead = filters.isRead[1])
                  ELSE byCategory
    IN IF TruthyNumber(filters.limit) THEN Slice0(byRead, filters.limit[1])
       ELSE byRead

\* getUnreadCount(userId)
GetUnreadCount(h, l) == Len(SelectSeq(l, LAMBDA o : ~h[o].obj.isRead))

\* --------------------------------------------------------------- config
AlertFrequencies == {"immediate", "daily"}
Configs == [userId : UserIds, alertFrequency : AlertFrequencies]
\* JSON.stringify(config) and JSON.parse(stored).  What some other writer
\* left under the key need not be JSON; JSON.parse then throws SyntaxError.
ConfigToJSON(c) == [text |-> "json", of |-> c]
CorruptText == [text |-> "garbage"]
CanParse(s) == s.text = "json"
ParseConfig(s) == s.of

\* ------------------------------------------------------------- API calls
NoCall == [op |-> "none"]

\* The environment acts: one more event.
Stimulus == events < MaxEvents /\ events' = events + 1

\* A public method was called and returned (or threw, or rejected).
Returned(op, arg, threw, value) ==
    /\ Stimulus
    /\ ret' = [op |-> op, arg |-> arg, threw |-> threw, value |-> value]

\* A suspended method goes on.
Internal == ret' = NoCall /\ UNCHANGED events

\* The ids a caller passes: those of the records at the head and at the tail
\* of the collection, and one that no record has.
AbsentId == <<"notif", "none", 0>>

HeldIds ==
    {IdOf(heap, notifications[i]) : i \in {1, 2, Len(notifications)} \cap DOMAIN notifications}

IdInputs == HeldIds \cup {AbsentId}

\* ------------------------------------------------------------------ Init
InitStore ==
    /\ heap = <<>>
    /\ notifications = <<>>
    /\ nextOid = 1
    /\ appends = 0
    /\ storedNotifications = None
    /\ announced = <<>>
    /\ escaped = FALSE

InitClock ==
    /\ quotaExceeded = FALSE
    /\ now = 0
    /\ events = 0
    /\ firedNow = [a \in Tasks |-> FALSE]
    /\ ret = NoCall

\* initializeService reads Notification.permission when the API exists.
InitPermission ==
    /\ notificationSupported \in BOOLEAN
    /\ notificationPermission \in
          (IF notificationSupported THEN {"default", "granted"} ELSE {"default"})
    /\ constructible \in (IF notificationSupported THEN BOOLEAN ELSE {FALSE})

InitConfigEmpty ==
    /\ userConfigs = [u \in UserIds |-> None]
    /\ storedConfigs = [u \in UserIds |-> None]

\* The service after construction, its timers set.
Init ==
    /\ InitClock
    /\ InitPermission
    /\ InitConfigEmpty
    /\ InitStore
    /\ task = [a \in Tasks |-> IdleTask]

\* --------------------------------------------------------------- actions
\* No poll is suspended.  Every await of a poll is on a promise that is
\* already settled, so a poll ends within the microtasks of the timer
\* callback that started it: no other timer callback runs, and no measurable
\* time passes, before it has ended.  Methods called from other microtasks
\* (a listener of 'newNotification' that awaits, say) do run in between.
Quiet == \A a \in Tasks : task[a].pc = "idle"

AdvanceTime(d) ==
    /\ Quiet
    /\ Stimulus
    /\ now' = now + d
    /\ firedNow' = [a \in Tasks |-> FALSE]
    /\ ret' = NoCall
    /\ UNCHANGED <<permVars, quotaExceeded, configVars, storeVars, task>>

\* The origin's storage fills up: from now on localStorage.setItem throws
\* QuotaExceededError.  The service never frees storage.
ExceedQuota ==
    /\ ~quotaExceeded
    /\ Stimulus
    /\ quotaExceeded' = TRUE
    /\ ret' = NoCall
    /\ UNCHANGED <<clockVars, permVars, configVars, storeVars, timerVars>>

\* A timer fires: check...() polls the adapter and runs up to its first
\* await.  A poll that emits nothing changes nothing.
Tick(a) ==
    /\ Quiet
    /\ ~firedNow[a]
    /\ \E evs \in Polls(a, now) :
          IF Len(evs) = 0
          THEN UNCHANGED <<storeVars, task, firedNow, events, ret>>
          ELSE /\ Stimulus
               /\ ret' = NoCall
               /\ firedNow' = [firedNow EXCEPT ![a] = TRUE]
               /\ SendNotification(a, Head(evs), Tail(evs), appends + 1, 1)
    /\ UNCHANGED <<clockVars, quotaExceeded, permVars, configVars>>

\* deliverThroughChannel resumes after `await this.sendPushNotification(..)`.
ResumePush(a) ==
    /\ task[a].pc = "await_push"
    /\ Settle(a, task[a].cur, task[a].ch, heap, notifications, task,
              task[a].settled)
    /\ Internal
    /\ UNCHANGED <<clockVars, quotaExceeded, permVars, configVars, firedNow, nextOid, appends,
                   announced>>

\* sendNotification resumes after `await this.deliverThroughChannel(..)`.
ResumeDeliver(a) ==
    /\ task[a].pc = "await_deliver"
    /\ DispatchFrom(a, task[a].cur, task[a].ch + 1, heap, notifications, task,
                    announced)
    /\ Internal
    /\ UNCHANGED <<clockVars, quotaExceeded, permVars, configVars, firedNow, nextOid, appends>>

\* The loop of check...() resumes after `await this.createNotificationFrom..`.
ResumeSend(a) ==
    /\ task[a].pc = "await_send"
    /\ SendNotification(a, Head(task[a].queue), Tail(task[a].queue),
                        task[a].poll, task[a].idx + 1)
    /\ Internal
    /\ UNCHANGED <<clockVars, quotaExceeded, permVars, configVars, firedNow>>

\* requestPermission(); `answer` is what the user chooses in the prompt.
RequestPermission(answer) ==
    /\ IF ~notificationSupported
       THEN /\ UNCHANGED permVars
            /\ Returned("requestPermission", None, FALSE, FALSE)
       ELSE IF notificationPermission = "granted"
       THEN /\ UNCHANGED permVars
            /\ Returned("requestPermission", None, FALSE, TRUE)
       ELSE /\ notificationPermission' = answer
            /\ UNCHANGED <<notificationSupported, constructible>>
            /\ Returned("requestPermission", None, FALSE,
                        answer = "granted")
    /\ UNCHANGED <<clockVars, quotaExceeded, configVars, storeVars, timerVars>>

MarkAsRead(id) ==
    /\ LET found == \E i \in DOMAIN notifications :
                       IdOf(heap, notifications[i]) = id
           h1 == MarkRead(heap, notifications, id)
       IN /\ heap' = h1
          /\ storedNotifications' =
                IF found THEN SaveNotificationsToStorage(notifications, h1)
                ELSE storedNotifications
          /\ Returned("markAsRead", id, FALSE, None)
    /\ UNCHANGED <<clockVars, quotaExceeded, permVars, configVars, timerVars, notifications,
                   nextOid, appends, announced, escaped>>

MarkAllAsRead(userId) ==
    /\ LET h1 == MarkAllRead(heap, notifications, userId)
       IN /\ heap' = h1
          /\ storedNotifications' = SaveNotificationsToStorage(notifications, h1)
          /\ Returned("markAllAsRead", userId, FALSE, None)
    /\ UNCHANGED <<clockVars, quotaExceeded, permVars, configVars, timerVars, notifications,
                   nextOid, appends, announced, escaped>>

DeleteNotification(id) ==
    /\ LET l1 == DeleteById(heap, notifications, id)
       IN /\ notifications' = l1
          /\ heap' = Collect(heap, l1, task)
          /\ storedNotifications' = SaveNotificationsToStorage(l1, heap)
          /\ Returned("deleteNotification", id, FALSE, None)
    /\ UNCHANGED <<clockVars, quotaExceeded, permVars, configVars, timerVars, nextOid, appends,
                   announced, escaped>>

Cleanup ==
    /\ LET l1 == EvictExpired(heap, notifications, now)
       IN /\ notifications' = l1
          /\ heap' = Collect(heap, l1, task)
          /\ storedNotifications' = SaveNotificationsToStorage(l1, heap)
          /\ Returned("cleanup", None, FALSE, None)
    /\ UNCHANGED <<clockVars, quotaExceeded, permVars, configVars, timerVars, nextOid, appends,
                   announced, escaped>>

\* loadNotificationsFromStorage: the collection is replaced by fresh objects
\* parsed from storage; nothing happens when the key is absent or the read
\* throws (caught and logged).
LoadNotificationsFromStorage(readOk) ==
    IF readOk /\ storedNotifications # None
    THEN LET items == storedNotifications[1]
             l1 == [i \in 1..Len(items) |-> nextOid + i - 1]
             fresh == [o \in Range(l1) |->
                         [items[o - nextOid + 1] EXCEPT
                             !.obj = Revive(items[o - nextOid + 1].obj),
                             !.parsed = TRUE]]
         IN /\ notifications' = l1
            /\ heap' = Collect(heap @@ fresh, l1, task)
            /\ nextOid' = nextOid + Len(items)
    ELSE UNCHANGED <<notifications, heap, nextOid>>

Initialize ==
    /\ \E readOk \in BOOLEAN :
          /\ LoadNotificationsFromStorage(readOk)
          /\ Returned("initialize", ~readOk, FALSE, None)
    /\ UNCHANGED <<clockVars, quotaExceeded, permVars, configVars, timerVars, appends,
                   storedNotifications, announced, escaped>>

\* updateUserConfig: the map is set first, then localStorage.setItem is called
\* outside any try block, so a throwing write rejects the returned promise.
UpdateUserConfig(config) ==
    /\ userConfigs' = [userConfigs EXCEPT ![config.userId] = Some(config)]
    /\ storedConfigs' =
          IF ~quotaExceeded
          THEN [storedConfigs EXCEPT ![config.userId] = Some(ConfigToJSON(config))]
          ELSE storedConfigs
    /\ Returned("updateUserConfig", config, quotaExceeded, None)
    /\ UNCHANGED <<clockVars, quotaExceeded, permVars, storeVars, timerVars>>

\* getUserConfig: a miss in the map reads localStorage, outside any try block.
GetUserConfig(userId) ==
    /\ IF userConfigs[userId] # None
       THEN /\ UNCHANGED configVars
            /\ Returned("getUserConfig", userId, FALSE, userConfigs[userId])
       ELSE \E readOk \in BOOLEAN :
               IF ~readOk
               THEN /\ UNCHANGED configVars
                    /\ Returned("getUserConfig", userId, TRUE, None)
               ELSE IF storedConfigs[userId] = None
               THEN /\ UNCHANGED configVars
                    /\ Returned("getUserConfig", userId, FALSE, None)
               ELSE IF ~CanParse(storedConfigs[userId][1])
               THEN /\ UNCHANGED configVars
                    /\ Returned("getUserConfig", userId, TRUE, None)
               ELSE LET config == ParseConfig(storedConfigs[userId][1])
                    IN /\ userConfigs' = [userConfigs EXCEPT ![userId] = Some(config)]
                       /\ UNCHANGED storedConfigs
                       /\ Returned("getUserConfig", userId, FALSE, Some(config))
    /\ UNCHANGED <<clockVars, quotaExceeded, permVars, storeVars, timerVars>>

\* ------------------------------------------------------------------ Next
Next ==
    \/ \E d \in TimeSteps : AdvanceTime(d)
    \/ ExceedQuota
    \/ \E a \in Adapters : Tick(a)
    \/ \E a \in Tasks : ResumePush(a)
    \/ \E a \in Tasks : ResumeDeliver(a)
    \/ \E a \in Tasks : ResumeSend(a)
    \/ \E answer \in Permissions : RequestPermission(answer)
    \/ \E id \in IdInputs : MarkAsRead(id)
    \/ \E userId \in {"farmer1"} : MarkAllAsRead(userId)
    \/ \E id \in IdInputs : DeleteNotification(id)
    \/ Cleanup
    \/ Initialize

Spec == Init /\ [][Next]_vars

\* A suspended method is resumed: the continuation of an await on a settled
\* promise is a microtask, and the event loop runs every microtask.
Continue ==
    \E a \in Tasks : ResumePush(a) \/ ResumeDeliver(a) \/ ResumeSend(a)

\* The polls, and what can happen to the store while an append is under
\* way: the write starts to fail, the record is deleted, the collection is
\* replaced from storage.
NextAppend ==
    \/ \E a \in Adapters : Tick(a)
    \/ Continue
    \/ ExceedQuota
    \/ \E id \in IdInputs : DeleteNotification(id)
    \/ Initialize

SpecFair == Init /\ [][NextAppend]_vars /\ WF_vars(Continue)

\* ------------------------------------------- a long-running service
\* The service after k price polls five minutes apart, each of which emitted
\* one alert that was dispatched to its end: the collection is full.
FillLevels == {MaxNotifications}

FilledCell(i, permission) ==
    LET t == PricePeriod * i
        n == CreateNotificationFromPriceAlert(
                 [id |-> <<"price", t>>, changePercentage |-> -12], t)
        c == Cell(n, i, "price", i, 1)
    IN [c EXCEPT
          !.obj.deliveryChannels =
              [j \in DOMAIN n.deliveryChannels |->
                  DeliverThroughChannel(n.deliveryChannels[j], "fulfilled", t).entry],
          !.attempts = [j \in DOMAIN n.deliveryChannels |->
                           [count |-> 1, granted |-> permission = "granted"]]]

InitCap ==
    /\ notificationSupported = TRUE
    /\ notificationPermission = "granted"
    /\ constructible = TRUE
    /\ InitConfigEmpty
    /\ quotaExceeded = FALSE
    /\ events = 0
    /\ firedNow = [a \in Tasks |-> FALSE]
    /\ ret = NoCall
    /\ task = [a \in Tasks |-> IdleTask]
    /\ escaped = FALSE
    /\ \E k \in FillLevels :
          /\ now = PricePeriod * (k + 1)
          /\ heap = [o \in 1..k |-> FilledCell(o, notificationPermission)]
          /\ notifications = [i \in 1..k |-> k + 1 - i]
          /\ nextOid = k + 1
          /\ appends = k
          /\ announced = [i \in 1..k |-> 1]
          /\ storedNotifications = Some(StoredSlice(notifications, heap))

\* Appends at the present time, interleaved with the mutations.
NextCap ==
    \/ \E a \in {"price", "seasonal"} : Tick(a)
    \/ \E a \in Tasks : ResumePush(a)
    \/ \E a \in Tasks : ResumeDeliver(a)
    \/ \E a \in Tasks : ResumeSend(a)
    \/ \E id \in IdInputs : MarkAsRead(id)
    \/ \E userId \in UserIds : MarkAllAsRead(userId)
    \/ \E id \in IdInputs : DeleteNotification(id)
    \/ Cleanup

SpecCap == InitCap /\ [][NextCap]_vars

\* ------------------------------------------------- the dispatcher alone
\* sendNotification is given one notification whose delivery channels are
\* any list of one or two entries of the DeliveryChannel type.
ChannelNames == {"push", "sms", "email", "in-app"}
ChannelEntries ==
    {[NewChannel(c) EXCEPT !.enabled = e] : c \in ChannelNames, e \in BOOLEAN}
ChannelLists ==
    {<<x>> : x \in ChannelEntries}
        \cup {<<x, y>> : x \in ChannelEntries, y \in ChannelEntries}

DirectNotification(chs) ==
    [CreateNotificationFromPriceAlert(
         [id |-> <<"price", 0>>, changePercentage |-> -12], 0)
     EXCEPT !.deliveryChannels = chs]

InitDispatch ==
    /\ InitClock
    /\ InitPermission
    /\ InitConfigEmpty
    /\ InitStore
    /\ \E chs \in ChannelLists :
          task = [a \in Tasks |->
                    IF a = "direct"
                    THEN [IdleTask EXCEPT
                            !.pc = "await_send",
                            !.queue = <<[notification |-> DirectNotification(chs)]>>,
                            !.poll = 1]
                    ELSE IdleTask]

NextDispatch ==
    \/ \E a \in Tasks : ResumeSend(a)
    \/ \E a \in Tasks : ResumePush(a)
    \/ \E a \in Tasks : ResumeDeliver(a)
    \/ \E answer \in Permissions : RequestPermission(answer)
    \/ ExceedQuota

SpecDispatch == InitDispatch /\ [][NextDispatch]_vars

\* ------------------------------------------- the configuration methods
\* What earlier sessions, or other writers, left under the users' keys.
StoredConfigsOf(u) ==
    {None, Some(CorruptText)}
        \cup {Some(ConfigToJSON(c)) : c \in {d \in Configs : d.userId = u}}

InitConfig ==
    /\ InitClock
    /\ InitPermission
    /\ InitStore
    /\ task = [a \in Tasks |-> IdleTask]
    /\ userConfigs = [u \in UserIds |-> None]
    /\ storedConfigs \in [UserIds -> UNION {StoredConfigsOf(u) : u \in UserIds}]
    /\ \A u \in UserIds : storedConfigs[u] \in StoredConfigsOf(u)

NextConfig ==
    \/ ExceedQuota
    \/ \E config \in Configs : UpdateUserConfig(config)
    \/ \E userId \in UserIds : GetUserConfig(userId)

SpecConfig == InitConfig /\ [][NextConfig]_vars

\* ------------------------------------------- a caller of getNotifications
\* The filters the caller passes.
QueryFilters ==
    {NoFilters, [NoFilters EXCEPT !.limit = Some(1)],
     [NoFilters EXCEPT !.isRead = Some(FALSE)]}

Reverse(s) == [i \in 1..Len(s) |-> s[Len(s) + 1 - i]]

\* getNotifications(userId, filters) is called; the caller holds the array
\* it returned (ret.value): a new array of the store's own objects.
GetNotificationsCall(filters) ==
    /\ Returned("getNotifications", filters, FALSE,
                GetNotifications(heap, notifications, filters))
    /\ UNCHANGED <<clockVars, quotaExceeded, permVars, configVars, storeVars, timerVars>>

\* The caller holds an array that getNotifications returned.
HoldsResult == ret.op \in {"getNotifications", "callerEdit"}

\* The caller removes the first element of its array, or reverses the array.
CallerEditsList(edit) ==
    /\ HoldsResult
    /\ Len(ret.value) > 0
    /\ Stimulus
    /\ ret' = [ret EXCEPT !.op = "callerEdit",
                          !.value = IF edit = "shift" THEN Tail(@) ELSE Reverse(@)]
    /\ UNCHANGED <<clockVars, quotaExceeded, permVars, configVars, storeVars, timerVars>>

\* The caller assigns isRead on the i-th record of its array.
CallerSetsIsRead(i, v) ==
    /\ HoldsResult
    /\ i \in DOMAIN ret.value
    /\ ret.value[i] \in DOMAIN heap
    /\ Stimulus
    /\ ret' = [ret EXCEPT !.op = "callerEdit"]
    /\ heap' = [heap EXCEPT ![ret.value[i]].obj.isRead = v]
    /\ UNCHANGED <<clockVars, quotaExceeded, permVars, configVars, timerVars,
                   notifications, nextOid, appends, storedNotifications,
                   announced, escaped>>

NextCaller ==
    \/ \E a \in Adapters : Tick(a)
    \/ \E a \in Tasks : ResumePush(a)
    \/ \E a \in Tasks : ResumeDeliver(a)
    \/ \E a \in Tasks : ResumeSend(a)
    \/ \E filters \in QueryFilters : GetNotificationsCall(filters)
    \/ \E edit \in {"shift", "reverse"} : CallerEditsList(edit)
    \/ \E i \in {1, 2} : \E v \in BOOLEAN : CallerSetsIsRead(i, v)

SpecCaller == Init /\ [][NextCaller]_vars

\* ------------------------------------------- a service with a history
\* The polls of the first two hours that emitted something, oldest first:
\* the first monsoon tip and a weather alert at the start; an hour later the
\* same tip again, a weather alert, a deadline reminder and a price alert.
History ==
    LET tip(t) == GenerateSeasonalTips(t, {<<"monsoon", 0>>})[1]
        weather(t) == (CHOOSE evs \in GenerateSimulatedWeatherAlerts(t) :
                          Len(evs) = 1 /\ evs[1].severity = "severe")[1]
        reminder(t) == (CHOOSE evs \in GenerateGovernmentUpdates(t) :
                           Len(evs) = 1 /\ evs[1].deadline # Undefined)[1]
        price(t) == (CHOOSE evs \in GenerateSimulatedPriceAlerts(t) :
                        Len(evs) = 1 /\ evs[1].changePercentage < 0)[1]
    IN << [adapter |-> "seasonal", at |-> 0, event |-> tip(0)],
          [adapter |-> "weather", at |-> 0, event |-> weather(0)],
          [adapter |-> "seasonal", at |-> SeasonalPeriod,
           event |-> tip(SeasonalPeriod)],
          [adapter |-> "weather", at |-> SeasonalPeriod,
           event |-> weather(SeasonalPeriod)],
          [adapter |-> "government", at |-> SeasonalPeriod,
           event |-> reminder(SeasonalPeriod)],
          [adapter |-> "price", at |-> SeasonalPeriod,
           event |-> price(SeasonalPeriod)] >>

\* The k-th notification of the history, dispatched to its end.
HistoryCell(k, permission) ==
    LET e == History[k]
        n == CreateNotification(e.adapter, e.event, e.at)
        c == Cell(n, k, e.adapter, k, 1)
    IN [c EXCEPT
          !.obj.deliveryChannels =
              [j \in DOMAIN n.deliveryChannels |->
                  DeliverThroughChannel(n.deliveryChannels[j], "fulfilled", e.at).entry],
          !.attempts = [j \in DOMAIN n.deliveryChannels |->
                           [count |-> 1, granted |-> permission = "granted"]]]

\* A day and an hour after the start: the first weather alert has expired,
\* the second expires at this moment, the reminder's deadline is ahead.
InitHistory ==
    /\ notificationSupported = TRUE
    /\ notificationPermission = "granted"
    /\ constructible = TRUE
    /\ InitConfigEmpty
    /\ quotaExceeded = FALSE
    /\ events = 0
    /\ firedNow = [a \in Tasks |-> FALSE]
    /\ ret = NoCall
    /\ task = [a \in Tasks |-> IdleTask]
    /\ escaped = FALSE
    /\ now = Day + SeasonalPeriod
    /\ heap = [o \in 1..Len(History) |-> HistoryCell(o, notificationPermission)]
    /\ notifications = [i \in 1..Len(History) |-> Len(History) + 1 - i]
    /\ nextOid = Len(History) + 1
    /\ appends = Len(History)
    /\ announced = [i \in 1..Len(History) |-> 1]
    /\ storedNotifications = Some(StoredSlice(notifications, heap))

\* From 1 October on no season has tips and a poll emits one event at most:
\* the loop of check...() has no second notification to resume for.
NextHistory ==
    \/ \E d \in TimeSteps : AdvanceTime(d)
    \/ ExceedQuota
    \/ \E a \in Adapters : Tick(a)
    \/ \E a \in Tasks : ResumePush(a)
    \/ \E a \in Tasks : ResumeDeliver(a)
    \/ \E answer \in Permissions : RequestPermission(answer)
    \/ \E id \in IdInputs : MarkAsRead(id)
    \/ \E userId \in {"farmer1"} : MarkAllAsRead(userId)
    \/ \E id \in IdInputs : DeleteNotification(id)
    \/ Cleanup
    \/ Initialize
    \/ \E filters \in QueryFilters : GetNotificationsCall(filters)

SpecHistory == InitHistory /\ [][NextHistory]_vars

\* ------------------------------------------------------------- analytics
Timeframes == {"day", "week", "month"}

\* startDate: setDate(getDate() - 1), setDate(getDate() - 7) or
\* setMonth(getMonth() - 1) on a copy of now; a month has 30 days here.
StartDateOf(t, timeframe) ==
    t - Day * (CASE timeframe = "day" -> 1
                 [] timeframe = "week" -> DeadlineDays
                 [] timeframe = "month" -> 30)

\* n.deliveryChannels.some(c => c.delivered)
SomeDelivered(n) == \E j \in DOMAIN n.deliveryChannels : n.deliveryChannels[j].delivered

\* The keys of an object filled by a reduce over vals: each value once, in
\* the order of its first occurrence.
KeysInOrder(vals) ==
    LET firsts == SelectSeq([i \in 1..Len(vals) |-> i],
                            LAMBDA i : \A j \in 1..(i - 1) : vals[j] # vals[i])
    IN [k \in 1..Len(firsts) |-> vals[firsts[k]]]

\* relevantNotifications.reduce(..) into { sent, delivered, read } per key.
TallyBy(ns, field) ==
    LET vals == [i \in 1..Len(ns) |-> ns[i][field]]
        of(v) == SelectSeq(ns, LAMBDA n : n[field] = v)
    IN [keys |-> KeysInOrder(vals),
        count |-> [v \in Range(vals) |->
                     [sent |-> Len(of(v)),
                      delivered |-> Len(SelectSeq(of(v), SomeDelivered)),
                      read |-> Len(SelectSeq(of(v), LAMBDA n : n.isRead))]]]

\* total > 0 ? (part / total) * 100 : 0, kept as the fraction num/den.
Percentage(part, total) ==
    IF total > 0 THEN [num |-> part * 100, den |-> total]
    ELSE [num |-> 0, den |-> 1]

\* (byType[a]?.read || 0)
ReadOf(byType, a) ==
    IF a \in DOMAIN byType.count THEN byType.count[a].read ELSE 0

\* The reducer keeps b in place of a only when b has more reads.
FirstMostRead(byType, keys, a) ==
    LET F[i \in 0..Len(keys)] ==
            IF i = 0 THEN a
            ELSE IF ReadOf(byType, keys[i]) > ReadOf(byType, F[i - 1])
                 THEN keys[i] ELSE F[i - 1]
    IN F[Len(keys)]

\* Object.keys(byType).reduce((a, b) =>
\*     (byType[a]?.read || 0) > (byType[b]?.read || 0) ? a : b, 'weather')
MostEngagingType(byType, keys, a) ==
    LET F[i \in 0..Len(keys)] ==
            IF i = 0 THEN a
            ELSE IF ReadOf(byType, F[i - 1]) > ReadOf(byType, keys[i])
                 THEN F[i - 1] ELSE keys[i]
    IN F[Len(keys)]

\* Every record counts as delivered.
CountAllDelivered(ns) == Len(ns)

\* relevantNotifications.filter(n => n.deliveryChannels.some(..)).length
CountDelivered(ns) == Len(SelectSeq(ns, SomeDelivered))

GetNotificationAnalytics(h, l, t, timeframe) ==
    LET startDate == StartDateOf(t, timeframe)
        all == [i \in 1..Len(l) |-> h[l[i]].obj]
        relevantNotifications == SelectSeq(all, LAMBDA n : n.timestamp.t >= startDate)
        totalSent == Len(relevantNotifications)
        totalDelivered == CountDelivered(relevantNotifications)
        totalRead == Len(SelectSeq(relevantNotifications, LAMBDA n : n.isRead))
        byType == TallyBy(relevantNotifications, "type")
    IN [totalSent |-> totalSent,
        totalDelivered |-> totalDelivered,
        totalRead |-> totalRead,
        deliveryRate |-> Percentage(totalDelivered, totalSent),
        readRate |-> Percentage(totalRead, totalDelivered),
        byType |-> byType,
        byPriority |-> TallyBy(relevantNotifications, "priority"),
        mostEngagingType |-> MostEngagingType(byType, byType.keys, "weather")]

\* getNotificationAnalytics(userId, timeframe) is called.
GetNotificationAnalyticsCall(timeframe) ==
    /\ Returned("getNotificationAnalytics", timeframe, FALSE,
                GetNotificationAnalytics(heap, notifications, now, timeframe))
    /\ UNCHANGED <<clockVars, quotaExceeded, permVars, configVars, storeVars, timerVars>>

\* Ten notifications: the six of the history, a second tip an hour later and
\* three alerts of the next morning.
Ledger ==
    LET tip(t) == GenerateSeasonalTips(t, {<<"monsoon", 1>>})[1]
        weather(t) == (CHOOSE evs \in GenerateSimulatedWeatherAlerts(t) :
                          Len(evs) = 1 /\ evs[1].severity = "severe")[1]
        update(t) == (CHOOSE evs \in GenerateGovernmentUpdates(t) :
                         Len(evs) = 1)[1]
        price(t) == (CHOOSE evs \in GenerateSimulatedPriceAlerts(t) :
                        Len(evs) = 1 /\ evs[1].changePercentage > 0)[1]
    IN History \o
       << [adapter |-> "seasonal", at |-> 2 * SeasonalPeriod,
           event |-> tip(2 * SeasonalPeriod)],
          [adapter |-> "price", at |-> Day, event |-> price(Day)],
          [adapter |-> "government", at |-> Day, event |-> update(Day)],
          [adapter |-> "weather", at |-> Day, event |-> weather(Day)] >>

\* The records a caller has read, and those that were written to storage
\* while their first delivery, a push, was pending (see C5): after a reload
\* they stay undelivered.
ReadSets == {{}, {1, 2, 3, 4}}
PendingSets == {{}, {2, 8, 10}}

\* The k-th notification of the ledger as loadNotificationsFromStorage
\* makes it from what was stored.
LedgerCell(k, permission, read, pending) ==
    LET e == Ledger[k]
        n == [CreateNotification(e.adapter, e.event, e.at) EXCEPT !.isRead = read]
        chs == n.deliveryChannels
        c == Cell(n, k, e.adapter, k, 1)
        sent == IF pending
                THEN [c EXCEPT !.attempts[1] =
                          [count |-> 1, granted |-> permission = "granted"]]
                ELSE [c EXCEPT
                        !.obj.deliveryChannels =
                            [j \in DOMAIN chs |->
                               DeliverThroughChannel(chs[j], "fulfilled", e.at).entry],
                        !.attempts = [j \in DOMAIN chs |->
                                        [count |-> 1, granted |-> permission = "granted"]]]
    IN [sent EXCEPT !.obj = Revive(ToJSON(sent.obj)), !.parsed = TRUE]

InitAnalytics ==
    /\ notificationSupported = TRUE
    /\ notificationPermission = "granted"
    /\ constructible = TRUE
    /\ InitConfigEmpty
    /\ quotaExceeded = FALSE
    /\ events = 0
    /\ firedNow = [a \in Tasks |-> FALSE]
    /\ ret = NoCall
    /\ task = [a \in Tasks |-> IdleTask]
    /\ escaped = FALSE
    /\ now = Day + SeasonalPeriod
    /\ \E read \in ReadSets : \E pending \in PendingSets :
          heap = [o \in 1..Len(Ledger) |->
                    LedgerCell(o, notificationPermission, o \in read, o \in pending)]
    /\ notifications = [i \in 1..Len(Ledger) |-> Len(Ledger) + 1 - i]
    /\ nextOid = Len(Ledger) + 1
    /\ appends = Len(Ledger)
    /\ announced = [i \in 1..Len(Ledger) |-> 1]
    /\ storedNotifications = Some(StoredSlice(notifications, heap))

NextAnalytics ==
    \/ \E d \in TimeSteps : AdvanceTime(d)
    \/ \E a \in Adapters : Tick(a)
    \/ \E a \in Tasks : ResumePush(a)
    \/ \E a \in Tasks : ResumeDeliver(a)
    \/ \E id \in IdInputs : MarkAsRead(id)
    \/ \E timeframe \in Timeframes : GetNotificationAnalyticsCall(timeframe)

SpecAnalytics == InitAnalytics /\ [][NextAnalytics]_vars

\* ------------------------------------------- every public operation
\* The service with a history, its reads included.
NextService ==
    \/ NextHistory
    \/ \E timeframe \in Timeframes : GetNotificationAnalyticsCall(timeframe)

SpecService == InitHistory /\ [][NextService]_vars

\* ------------------------------------------------------------ the timers
\* startRealTimeMonitoring: the delay of each setInterval, in minutes.
Period(a) ==
    CASE a = "weather" -> WeatherPeriod
      [] a = "price" -> PricePeriod
      [] a = "seasonal" -> SeasonalPeriod
      [] a = "government" -> GovernmentPeriod

\* setTimeout in place of setInterval: the callback is due once.
DueOnce(a, t) == t = Period(a)

\* The callback of adapter a's setInterval is due at time t.
Due(a, t) == t > 0 /\ t % Period(a) = 0

\* The timer of adapter a fires: check...() polls the adapter, whatever the
\* earlier polls did, and runs up to its first await.
Poll(a) ==
    /\ Quiet
    /\ Due(a, now)
    /\ ~firedNow[a]
    /\ firedNow' = [firedNow EXCEPT ![a] = TRUE]
    /\ \E evs \in Polls(a, now) :
          IF Len(evs) = 0
          THEN UNCHANGED <<storeVars, task, events, ret>>
          ELSE /\ appends < MaxAlerts
               /\ Stimulus
               /\ ret' = NoCall
               /\ SendNotification(a, Head(evs), Tail(evs), appends + 1, 1)
    /\ UNCHANGED <<clockVars, quotaExceeded, permVars, configVars>>

\* Five minutes pass.  The callbacks that are due have run: the event loop
\* is idle long before the next one is due.
Elapse ==
    /\ Quiet
    /\ now < MaxTicks * WeatherPeriod
    /\ \A a \in Adapters : Due(a, now) => firedNow[a]
    /\ now' = now + WeatherPeriod
    /\ firedNow' = [a \in Tasks |-> FALSE]
    /\ UNCHANGED <<events, ret, permVars, quotaExceeded, configVars, storeVars, task>>

\* The service has just been constructed; push is permitted, and the
\* platform may have no Notification constructor, so that every push fails.
InitTimers ==
    /\ InitClock
    /\ notificationSupported = TRUE
    /\ notificationPermission = "granted"
    /\ constructible \in BOOLEAN
    /\ InitConfigEmpty
    /\ InitStore
    /\ task = [a \in Tasks |-> IdleTask]

NextTimers ==
    \/ \E a \in Adapters : Poll(a)
    \/ Continue
    \/ Elapse

\* The event loop runs what is runnable: a due callback, a continuation.
SpecTimers ==
    /\ InitTimers
    /\ [][NextTimers]_vars
    /\ WF_vars(Continue)
    /\ WF_vars(Elapse)
    /\ \A a \in Adapters : WF_vars(Poll(a))

\* ------------------------------------------------------- the normalizers
\* The events the normalizers are given: every severity a WeatherAlert may
\* have, price changes on both sides of the two thresholds, a government
\* update with and without a deadline.
WeatherSeverities == {"minor", "moderate", "severe", "extreme"}
PriceChangeInputs == {-16, -12, 10, 12, 15, 16}

WeatherAlerts(t) ==
    {[id |-> <<"weather", t>>, severity |-> s, endTime |-> DateOf(t + Day)] :
        s \in WeatherSeverities}

PriceAlerts(t) ==
    {[id |-> <<"price", t>>, changePercentage |-> c] : c \in PriceChangeInputs}

GovernmentUpdates(t) ==
    {[id |-> <<"gov", t>>, deadline |-> d] :
        d \in {Undefined, DateOf(t + DeadlineDays * Day)}}

\* createNotificationFrom...(event) is called: the notification is built and
\* sendNotification runs up to its first await.
Normalize(a, event) ==
    /\ Quiet
    /\ Stimulus
    /\ ret' = [op |-> "createNotification", arg |-> [adapter |-> a, event |-> event],
               threw |-> FALSE, value |-> None]
    /\ SendNotification(a, event, <<>>, appends + 1, 1)
    /\ UNCHANGED <<clockVars, quotaExceeded, permVars, configVars, firedNow>>

InitNormalizer ==
    /\ InitClock
    /\ notificationSupported = TRUE
    /\ notificationPermission = "granted"
    /\ constructible = TRUE
    /\ InitConfigEmpty
    /\ InitStore
    /\ task = [a \in Tasks |-> IdleTask]

NextNormalizer ==
    \/ \E d \in TimeSteps : AdvanceTime(d)
    \/ \E alert \in WeatherAlerts(now) : Normalize("weather", alert)
    \/ \E alert \in PriceAlerts(now) : Normalize("price", alert)
    \/ \E update \in GovernmentUpdates(now) : Normalize("government", update)
    \/ \E a \in Tasks : ResumePush(a)
    \/ \E a \in Tasks : ResumeDeliver(a)

SpecNormalizer == InitNormalizer /\ [][NextNormalizer]_vars

\* =============================================================== claims
\* The objects an append step removes from the collection.
Dropped == Range(notifications) \ Range(notifications')

\* C1: the collection never holds more than 100 records; when an append
\* takes it past 100 exactly the surplus is dropped, every dropped record is
\* older by append order than every record kept, and the newly appended
\* record is at the head.
C1_CapStep ==
    /\ Len(notifications') <= MaxNotifications
    /\ appends' # appends =>
          /\ notifications'[1] = nextOid
          /\ heap'[nextOid].seq = appends'
          /\ Len(notifications') = Min(Len(notifications) + 1, MaxNotifications)
          /\ Cardinality(Dropped) = Len(notifications) + 1 - Len(notifications')
          /\ \A d \in Dropped : \A k \in Range(notifications) \ Dropped :
                heap[d].seq < heap[k].seq

C1_Cap == [][C1_CapStep]_vars

\* One append to the full collection: the oldest record is gone, every other
\* one is still held, the new one is at the head.
C1_Witness ==
    /\ events = 1
    /\ appends = MaxNotifications + 1
    /\ Len(notifications) = MaxNotifications
    /\ heap[notifications[1]].seq = appends
    /\ {heap[notifications[i]].seq : i \in DOMAIN notifications}
          = 2..(MaxNotifications + 1)

\* The channel entries of the objects alive, as (object, index) pairs.
Entries(h) ==
    {e \in (DOMAIN h) \X {1, 2} : e[2] \in DOMAIN h[e[1]].obj.deliveryChannels}
EntryOf(h, e) == h[e[1]].obj.deliveryChannels[e[2]]
AttemptOf(h, e) == h[e[1]].attempts[e[2]]

\* The attempt on entry e has ended: no poll is suspended inside it.
Ended(h, tk, e) ==
    /\ AttemptOf(h, e).count > 0
    /\ \A a \in Tasks : ~(tk[a].pc = "await_push" /\ tk[a].cur = e[1] /\ tk[a].ch = e[2])

\* Dispatch of object o has ended: its event was dispatched.  (An object
\* parsed from storage is a copy, not the object that was dispatched.)
Dispatched(h, an, o) == ~h[o].parsed /\ an[h[o].seq] > 0

\* C2: a push entry attempted while permission was not 'granted' is left
\* untouched: delivered = false, no deliveredAt, no error.
C2_PushNoop ==
    \A e \in Entries(heap) :
        (EntryOf(heap, e).channel = "push" /\ Ended(heap, task, e)
            /\ ~AttemptOf(heap, e).granted)
        => /\ ~EntryOf(heap, e).delivered
           /\ EntryOf(heap, e).deliveredAt = Undefined
           /\ EntryOf(heap, e).error = Undefined

C4_Untouched(h, an) ==
    \A e \in Entries(h) :
        /\ ~EntryOf(h, e).enabled =>
              /\ AttemptOf(h, e).count = 0
              /\ ~EntryOf(h, e).delivered
              /\ EntryOf(h, e).deliveredAt = Undefined
              /\ EntryOf(h, e).error = Undefined
        /\ (EntryOf(h, e).enabled /\ EntryOf(h, e).channel = "in-app"
              /\ Dispatched(h, an, e[1]))
           => EntryOf(h, e).delivered

C4_Step ==
    /\ C4_Untouched(heap', announced')
    /\ \A e \in Entries(heap) \cap Entries(heap') :
          EntryOf(heap', e) # EntryOf(heap, e) =>
             /\ EntryOf(heap, e).enabled
             /\ \A f \in (Entries(heap) \cap Entries(heap')) \ {e} :
                   EntryOf(heap', f) = EntryOf(heap, f)

C4_Independent == [][C4_Step]_vars

\* Push disabled and in-app enabled, after dispatch.
C4_Witness ==
    \E o \in DOMAIN heap :
        LET chs == heap[o].obj.deliveryChannels
        IN /\ Len(chs) = 2
           /\ chs[1].channel = "push" /\ ~chs[1].enabled /\ ~chs[1].delivered
           /\ chs[2].channel = "in-app" /\ chs[2].enabled /\ chs[2].delivered
           /\ Dispatched(heap, announced, o)

\* C5: no exception leaves a delivery attempt; an entry whose delivery threw
\* has the error and delivered = false; once the dispatch of a notification
\* has ended every enabled entry of it was attempted once and is delivered or
\* has an error, and the step that announces it also persists the collection
\* (when the write succeeds); the events of a poll are only taken off its
\* queue by being sent.
C5_Settled(h, an) ==
    \A e \in Entries(h) :
        /\ EntryOf(h, e).error # Undefined =>
              ~EntryOf(h, e).delivered /\ EntryOf(h, e).deliveredAt = Undefined
        /\ (EntryOf(h, e).enabled /\ Dispatched(h, an, e[1])) =>
              /\ AttemptOf(h, e).count = 1
              /\ EntryOf(h, e).delivered \/ EntryOf(h, e).error # Undefined

C5_Step ==
    /\ ~escaped'
    /\ C5_Settled(heap', announced')
    /\ \A k \in DOMAIN announced' :
          (k \in DOMAIN announced => announced'[k] # announced[k]) =>
             \/ announced'[k] = 0
             \/ /\ announced'[k] = 1
                /\ ~quotaExceeded =>
                      storedNotifications' = Some(StoredSlice(notifications', heap'))
    /\ \A a \in Tasks :
          task'[a].queue # task[a].queue =>
             \/ task[a].queue = <<>>
             \/ /\ task'[a].queue = Tail(task[a].queue)
                /\ appends' = appends + 1
                /\ heap'[nextOid].src = [adapter |-> a, poll |-> task[a].poll,
                                         idx |-> task[a].idx + 1]

C5_Contained == [][C5_Step]_vars

\* The push of the first tip of a poll threw; its in-app entry was still
\* delivered, it was announced and persisted, and the second tip of the same
\* poll was dispatched after it.
C5_Witness ==
    \E o, p \in DOMAIN heap :
        LET chs == heap[o].obj.deliveryChannels
        IN /\ \E j, k \in DOMAIN chs :
                /\ chs[j].channel = "push" /\ chs[j].error # Undefined
                /\ ~chs[j].delivered
                /\ chs[k].channel = "in-app" /\ chs[k].delivered
           /\ Dispatched(heap, announced, o)
           /\ storedNotifications # None
           /\ \E i \in DOMAIN storedNotifications[1] :
                 storedNotifications[1][i].seq = heap[o].seq
           /\ heap[p].src.poll = heap[o].src.poll
           /\ heap[p].src.idx = heap[o].src.idx + 1
           /\ Dispatched(heap, announced, p)

\* C6: no two notifications held by the store have the same id.
C6_UniqueIds ==
    \A i, j \in DOMAIN notifications :
        i # j => IdOf(heap, notifications[i]) # IdOf(heap, notifications[j])

\* The mutations of the store that are called from outside.
StoreMutations ==
    {"markAsRead", "markAllAsRead", "deleteNotification", "cleanup",
     "updateUserConfig"}

\* C7: a storage write failure does not propagate out of a store mutation:
\* the call made while writes throw completes normally, and the
\* configuration that updateUserConfig set in memory is kept.
C7_WriteFailureContained ==
    (ret.op \in StoreMutations /\ quotaExceeded)
    => /\ ~ret.threw
       /\ ret.op = "updateUserConfig" =>
             userConfigs[ret.arg.userId] = Some(ret.arg)

\* C8: getUserConfig does not throw; when the read throws or the stored text
\* does not parse it returns null and leaves the map as it was.
C8_Step ==
    ret'.op = "getUserConfig" =>
       /\ ~ret'.threw
       /\ (userConfigs[ret'.arg] = None
             /\ (storedConfigs[ret'.arg] = None
                   \/ ~CanParse(storedConfigs[ret'.arg][1])))
          => ret'.value = None /\ userConfigs' = userConfigs

C8_ReadFailureIsNull == [][C8_Step]_vars

\* The filters a caller passes.
FilterInputs ==
    [type : {None, Some("weather"), Some("seasonal")},
     category : {None, Some("tip")},
     isRead : {None, Some(TRUE), Some(FALSE)},
     limit : {None, Some(0), Some(1), Some(2)}]

\* The records that match every supplied filter, in store order.
Matching(f) ==
    SelectSeq(notifications, LAMBDA o :
        /\ f.type # None => heap[o].obj.type = f.type[1]
        /\ f.category # None => heap[o].obj.category = f.category[1]
        /\ f.isRead # None => heap[o].obj.isRead = f.isRead[1])

\* C9: getNotifications returns the records matching every supplied filter,
\* in store order, and with limit = N the first min(N, matches) of them.
C9_Query ==
    \A f \in FilterInputs :
        GetNotifications(heap, notifications, f) =
            IF f.limit = None THEN Matching(f)
            ELSE SubSeq(Matching(f), 1, Min(f.limit[1], Len(Matching(f))))

\* C10: getNotifications without filters returns the records most recent
\* first (strictly decreasing append number), and of two notifications of one
\* poll the one the adapter emitted first was appended first.
C10_Order ==
    LET r == GetNotifications(heap, notifications, NoFilters)
    IN /\ Len(r) = Len(notifications)
       /\ \A i, j \in DOMAIN r : i < j => heap[r[i]].seq > heap[r[j]].seq
       /\ \A o, p \in DOMAIN heap :
             (heap[o].src.poll = heap[p].src.poll
                 /\ heap[o].src.idx < heap[p].src.idx)
             => heap[o].seq < heap[p].seq

\* Both tips of one seasonal poll are held, in the order of the database,
\* below a later notification, after a record was marked read.
C10_Witness ==
    LET r == GetNotifications(heap, notifications, NoFilters)
    IN /\ Len(r) >= 3
       /\ \E i \in DOMAIN r : heap[r[i]].obj.isRead
       /\ \E i, j \in DOMAIN r :
             /\ i < j
             /\ heap[r[i]].src.poll = heap[r[j]].src.poll
             /\ heap[r[i]].obj.id = <<"notif", "tip", 9, 5, 1>>
             /\ heap[r[j]].obj.id = <<"notif", "tip", 9, 5, 0>>

\* The records getNotifications(filters) returns in state (h, l), by value.
Records(h, l, filters) ==
    LET r == GetNotifications(h, l, filters)
    IN [i \in DOMAIN r |-> h[r[i]].obj]

\* C11: nothing the caller does to the value getNotifications returned
\* changes the collection, the unread count or what a later getNotifications
\* returns.
C11_Step ==
    ret'.op = "callerEdit" =>
       /\ notifications' = notifications
       /\ GetUnreadCount(heap', notifications') = GetUnreadCount(heap, notifications)
       /\ \A f \in QueryFilters :
             Records(heap', notifications', f) = Records(heap, notifications, f)

C11_ReturnsCopy == [][C11_Step]_vars

\* What persistence must preserve of a record: its id, its creation
\* instant, isRead and the status of each channel entry.
StatusOf(n) ==
    [id |-> n.id, at |-> n.timestamp.t, isRead |-> n.isRead,
     channels |-> [j \in DOMAIN n.deliveryChannels |->
                      [channel |-> n.deliveryChannels[j].channel,
                       enabled |-> n.deliveryChannels[j].enabled,
                       delivered |-> n.deliveryChannels[j].delivered,
                       error |-> n.deliveryChannels[j].error]]]

\* The step completes a mutation of the collection: an append reaches its
\* end, or one of the mutating methods returns.
CompletesMutation ==
    \/ \E k \in DOMAIN announced' : k \in DOMAIN announced /\ announced'[k] # announced[k]
    \/ ret'.op \in {"markAllAsRead", "deleteNotification", "cleanup"}
    \/ /\ ret'.op = "markAsRead"
       /\ \E i \in DOMAIN notifications : IdOf(heap, notifications[i]) = ret'.arg

\* C12: the persisted array never has more than 50 records, and after a
\* completed mutation whose write succeeds it holds the first 50 records of
\* the collection, in order, with the same isRead and channel status.
C12_Step ==
    /\ storedNotifications' # None => Len(storedNotifications'[1]) <= MaxStored
    /\ (CompletesMutation /\ ~quotaExceeded) =>
          /\ storedNotifications' # None
          /\ Len(storedNotifications'[1]) = Min(Len(notifications'), MaxStored)
          /\ \A i \in DOMAIN storedNotifications'[1] :
                StatusOf(storedNotifications'[1][i].obj)
                    = StatusOf(heap'[notifications'[i]].obj)

C12_Persisted == [][C12_Step]_vars

\* An append to the full collection has ended: 50 of the 100 records are
\* persisted, the new one first.
C12_Witness ==
    /\ Len(notifications) = MaxNotifications
    /\ appends > MaxNotifications
    /\ announced[appends] = 1
    /\ storedNotifications # None
    /\ Len(storedNotifications[1]) = MaxStored
    /\ storedNotifications[1][1].seq = appends

\* C13: every append is followed by exactly one 'newNotification' event for
\* the appended notification: events are counted per append, a count only
\* goes from 0 to 1, and again and again every append made so far has its
\* one event (so each append eventually has it, for good), also when a
\* delivery or the storage write failed.
C13_CountStep ==
    \A k \in DOMAIN announced :
        /\ k \in DOMAIN announced'
        /\ announced'[k] = announced[k] \/ (announced[k] = 0 /\ announced'[k] = 1)

C13_OneEvent ==
    /\ [](DOMAIN announced = 1..appends)
    /\ [][C13_CountStep]_vars
    /\ []<>(\A k \in DOMAIN announced : announced[k] = 1)

\* The event of a notification whose push failed and whose write failed.
C13_Witness ==
    \E o \in DOMAIN heap :
        /\ Dispatched(heap, announced, o)
        /\ announced[heap[o].seq] = 1
        /\ quotaExceeded
        /\ storedNotifications = None
        /\ \E j \in DOMAIN heap[o].obj.deliveryChannels :
              heap[o].obj.deliveryChannels[j].error # Undefined

\* A step of cleanup() keeps exactly the records that satisfy Keep, in their
\* order; a step of getNotifications without filters returns every record
\* held, expired or not, and leaves the collection as it is.
CleanupKeeps(Keep(_)) ==
    /\ ret'.op = "cleanup" =>
          /\ Range(notifications') = {o \in Range(notifications) : Keep(o)}
          /\ notifications' =
                SelectSeq(notifications, LAMBDA o : o \in Range(notifications'))
    /\ (ret'.op = "getNotifications" /\ ret'.arg = NoFilters) =>
          /\ notifications' = notifications
          /\ ret'.value = notifications

\* The record's expiresAt is earlier than the current time.
IsPast(o) == heap[o].obj.expiresAt # Undefined /\ heap[o].obj.expiresAt.t < now

\* The record has no expiresAt, or one later than the current time.
IsAhead(o) == heap[o].obj.expiresAt = Undefined \/ heap[o].obj.expiresAt.t > now

\* C15 as stated: cleanup() removes exactly the records whose expiresAt is
\* earlier than the current time; no read evicts.
C15_EvictsPast == [][CleanupKeeps(LAMBDA o : ~IsPast(o))]_vars

\* C15, amended: cleanup() removes exactly the records whose expiresAt is
\* not later than the current time, and keeps every record that has no
\* expiresAt or whose expiresAt is later; no read evicts.
C15_EvictsNotAhead == [][CleanupKeeps(IsAhead)]_vars

\* cleanup() has run on the history: both weather alerts are gone, the one
\* that expired an hour ago and the one that expires now; the reminder, the
\* price alert and the tips are kept.
C15_Witness ==
    /\ ret.op = "cleanup"
    /\ events = 1
    /\ [i \in DOMAIN notifications |-> heap[notifications[i]].obj.type]
          = <<"price", "government", "seasonal", "seasonal">>

\* The positions of the records held under an id.
HeldUnder(id) == {i \in DOMAIN notifications : heap[notifications[i]].obj.id = id}

C16_Step ==
    ret'.op = "markAsRead" =>
       /\ ~ret'.threw
       /\ notifications' = notifications
       /\ DOMAIN heap' = DOMAIN heap
       /\ HeldUnder(ret'.arg) = {} => heap' = heap
       /\ HeldUnder(ret'.arg) # {} =>
             \E i \in HeldUnder(ret'.arg) :
                /\ heap'[notifications[i]].obj =
                      [heap[notifications[i]].obj EXCEPT !.isRead = TRUE]
                /\ \A o \in DOMAIN heap \ {notifications[i]} : heap'[o] = heap[o]
       /\ MarkRead(heap', notifications', ret'.arg) = heap'
       /\ (ret.op = "markAsRead" /\ ret.arg = ret'.arg) =>
             /\ heap' = heap
             /\ storedNotifications' = storedNotifications

\* C16: markAsRead(id) raises no error and leaves the collection as it is;
\* with no record under the id it changes nothing; with a record under the
\* id it sets isRead = true on one record of that id and changes no other
\* field and no other record; applied again to the state it leaves, it
\* changes nothing, in memory or in storage.
C16_Idempotent == [][C16_Step]_vars

\* markAsRead has returned, as the second call made, for an id that a record is held under:
\* that record is read, and a record under another id is still unread.
C16_Witness ==
    /\ ret.op = "markAsRead"
    /\ events = 2
    /\ \E i \in HeldUnder(ret.arg) : heap[notifications[i]].obj.isRead
    /\ \E i \in DOMAIN notifications :
          /\ heap[notifications[i]].obj.id # ret.arg
          /\ ~heap[notifications[i]].obj.isRead
    /\ GetUnreadCount(heap, notifications) = Len(notifications) - 1

C17_Step ==
    ret'.op = "deleteNotification" =>
       /\ ~ret'.threw
       /\ notifications' =
             SelectSeq(notifications, LAMBDA o : o \in Range(notifications'))
       /\ \A o \in Range(notifications) \ Range(notifications') :
             heap[o].obj.id = ret'.arg
       /\ Len(notifications') >= Len(notifications) - 1
       /\ HeldUnder(ret'.arg) = {} => notifications' = notifications
       /\ \A o \in Range(notifications') : heap'[o] = heap[o]

\* C17: deleteNotification(id) raises no error, removes one record, the one
\* held under the id, and no other record, keeps the rest as they are and
\* in their order, and with no record under the id leaves the collection
\* unchanged.
C17_RemovesOne == [][C17_Step]_vars

\* The records of the window of an analytics call, and among them the
\* delivered ones and the read ones.
InWindow(timeframe) ==
    {o \in Range(notifications) :
        heap[o].obj.timestamp.t >= StartDateOf(now, timeframe)}

DeliveredIn(timeframe) ==
    {o \in InWindow(timeframe) :
        \E j \in DOMAIN heap[o].obj.deliveryChannels :
            heap[o].obj.deliveryChannels[j].delivered}

ReadIn(timeframe) == {o \in InWindow(timeframe) : heap[o].obj.isRead}

\* The fraction r is part / total * 100, and 0 when total is 0.
IsPercentage(r, part, total) ==
    /\ r.den > 0
    /\ total > 0 => r.num * total = part * 100 * r.den
    /\ total = 0 => r.num = 0

\* C18: what getNotificationAnalytics returns counts the records of the
\* window: totalSent all of them, totalDelivered those with a delivered
\* channel entry, totalRead those with isRead; deliveryRate is
\* totalDelivered / totalSent * 100 and readRate is totalRead /
\* totalDelivered * 100, each 0 when its divisor is 0; with 10 records, 7
\* delivered and 4 read they are 70 and 4/7 * 100.
C18_Rates ==
    ret.op = "getNotificationAnalytics" =>
       LET sent == Cardinality(InWindow(ret.arg))
           delivered == Cardinality(DeliveredIn(ret.arg))
           read == Cardinality(ReadIn(ret.arg))
       IN /\ ret.value.totalSent = sent
          /\ ret.value.totalDelivered = delivered
          /\ ret.value.totalRead = read
          /\ IsPercentage(ret.value.deliveryRate, delivered, sent)
          /\ IsPercentage(ret.value.readRate, read, delivered)
          /\ (sent = 10 /\ delivered = 7 /\ read = 4) =>
                /\ ret.value.deliveryRate.num = 70 * ret.value.deliveryRate.den
                /\ ret.value.readRate.num * 7 = 400 * ret.value.readRate.den

\* The analytics of a week were asked for with ten records in the window,
\* seven of them delivered and four read.
C18_Witness ==
    /\ ret.op = "getNotificationAnalytics"
    /\ ret.arg = "week"
    /\ Cardinality(InWindow("week")) = 10
    /\ ret.value.totalDelivered = 7
    /\ ret.value.totalRead = 4

\* The types present in the window of an analytics call, the number of read
\* records of a type, the types with the most read records, and the place
\* of a type in byType's key order: where its first record is held.
TypesIn(timeframe) == {heap[o].obj.type : o \in InWindow(timeframe)}

ReadsOf(timeframe, type) ==
    Cardinality({o \in ReadIn(timeframe) : heap[o].obj.type = type})

MostRead(timeframe) ==
    {ty \in TypesIn(timeframe) :
        \A other \in TypesIn(timeframe) :
            ReadsOf(timeframe, other) <= ReadsOf(timeframe, ty)}

KeyPlace(timeframe, type) ==
    CHOOSE i \in DOMAIN notifications :
        /\ notifications[i] \in InWindow(timeframe)
        /\ heap[notifications[i]].obj.type = type
        /\ \A k \in 1..(i - 1) :
              notifications[k] \in InWindow(timeframe)
                 => heap[notifications[k]].obj.type # type

\* C19 as stated: mostEngagingType is a present type with the highest read
\* count, the first such type in byType's key order, and 'weather' when no
\* type is present.
C19_FirstTiedWins ==
    ret.op = "getNotificationAnalytics" =>
       LET m == ret.value.mostEngagingType
       IN /\ TypesIn(ret.arg) = {} => m = "weather"
          /\ TypesIn(ret.arg) # {} =>
                /\ m \in MostRead(ret.arg)
                /\ \A ty \in MostRead(ret.arg) :
                      KeyPlace(ret.arg, m) <= KeyPlace(ret.arg, ty)

\* C19, amended: mostEngagingType is a present type with the highest read
\* count, the last such type in byType's key order, and 'weather' when no
\* type is present.
C19_LastTiedWins ==
    ret.op = "getNotificationAnalytics" =>
       LET m == ret.value.mostEngagingType
       IN /\ TypesIn(ret.arg) = {} => m = "weather"
          /\ TypesIn(ret.arg) # {} =>
                /\ m \in MostRead(ret.arg)
                /\ \A ty \in MostRead(ret.arg) :
                      KeyPlace(ret.arg, m) >= KeyPlace(ret.arg, ty)

\* Analytics were asked for when two types share the highest read count,
\* which is not 0, and a third type has fewer read records.
C19_Witness ==
    /\ ret.op = "getNotificationAnalytics"
    /\ Cardinality(MostRead(ret.arg)) = 2
    /\ ReadsOf(ret.arg, ret.value.mostEngagingType) > 0
    /\ TypesIn(ret.arg) \ MostRead(ret.arg) # {}

\* The fields of a Notification other than isRead and, in its channel
\* entries, delivered, deliveredAt and error.
Frozen(n) ==
    [id |-> n.id, type |-> n.type, category |-> n.category,
     priority |-> n.priority, timestamp |-> n.timestamp,
     expiresAt |-> n.expiresAt, actionRequired |-> n.actionRequired,
     deliveryChannels |->
        [j \in DOMAIN n.deliveryChannels |->
            [channel |-> n.deliveryChannels[j].channel,
             enabled |-> n.deliveryChannels[j].enabled]]]

\* The stored records, when there are any.
StoredCells(stored) == IF stored = None THEN {} ELSE Range(stored[1])

C20_Step ==
    /\ \A o \in DOMAIN heap \cap DOMAIN heap' :
          Frozen(heap'[o].obj) = Frozen(heap[o].obj)
    /\ \A p \in DOMAIN heap' \ DOMAIN heap :
          /\ \A o \in DOMAIN heap :
                heap[o].seq = heap'[p].seq
                   => Frozen(heap'[p].obj) = Frozen(heap[o].obj)
          /\ \A c \in StoredCells(storedNotifications) :
                (heap'[p].parsed /\ c.seq = heap'[p].seq)
                   => Frozen(ToJSON(heap'[p].obj)) = Frozen(c.obj)
    /\ storedNotifications' # storedNotifications =>
          \A c \in StoredCells(storedNotifications') : \A o \in DOMAIN heap :
             heap[o].seq = c.seq => Frozen(c.obj) = Frozen(ToJSON(heap[o].obj))

\* C20: no step of the service changes, in a notification that was
\* appended, a field other than isRead, delivered, deliveredAt and error:
\* the object it is held as after the step, whether the same object or the
\* one made from storage, has the id, type, category, priority, timestamp,
\* expiresAt and actionRequired it had before, and the same channel entries
\* in the same order with the same channel and enabled; what a save writes
\* for it has these values in their JSON form.
C20_Immutable == [][C20_Step]_vars

\* A record that was delivered and read has been reloaded from storage:
\* its deliveredAt is now a string, its timestamp and expiresAt are Dates.
C20_Witness ==
    /\ ret.op = "initialize"
    /\ \E o \in Range(notifications) :
          /\ heap[o].parsed
          /\ heap[o].obj.isRead
          /\ heap[o].obj.timestamp.kind = "Date"
          /\ heap[o].obj.expiresAt.kind = "Date"
          /\ \E j \in DOMAIN heap[o].obj.deliveryChannels :
                /\ heap[o].obj.deliveryChannels[j].delivered
                /\ heap[o].obj.deliveryChannels[j].deliveredAt.kind = "string"

\* The timer of adapter a has a tick at the present time: a multiple of its
\* period after the service was constructed.
HasTick(a) == now > 0 /\ now % Period(a) = 0

\* A delivery failed in a poll of adapter a before the present time.
FailedBefore(a) ==
    \E o \in DOMAIN heap :
       /\ heap[o].src.adapter = a
       /\ heap[o].obj.timestamp.t < now
       /\ \E j \in DOMAIN heap[o].obj.deliveryChannels :
             heap[o].obj.deliveryChannels[j].error # Undefined

\* Time does not pass a tick of any timer before its adapter was polled.
C14_NoTickMissed ==
    now' # now => \A a \in Adapters : HasTick(a) => firedNow[a]

StoresConfig(stored, u, c) == stored[u] = Some(ConfigToJSON(c))

C21_Step ==
    /\ ret'.op = "updateUserConfig" =>
          LET c == ret'.arg
          IN /\ userConfigs'[c.userId] = Some(c)
             /\ StoresConfig(storedConfigs', c.userId, c)
             /\ \A u \in UserIds \ {c.userId} :
                   /\ userConfigs'[u] = userConfigs[u]
                   /\ storedConfigs'[u] = storedConfigs[u]
    /\ ret'.op = "getUserConfig" =>
          LET u == ret'.arg
          IN /\ storedConfigs' = storedConfigs
             /\ \A v \in UserIds \ {u} : userConfigs'[v] = userConfigs[v]
             /\ userConfigs[u] # None =>
                   /\ ~ret'.threw
                   /\ ret'.value = userConfigs[u]
                   /\ userConfigs' = userConfigs
             /\ \A c \in Configs :
                   (userConfigs[u] = None /\ StoresConfig(storedConfigs, u, c)) =>
                      /\ ~ret'.threw
                      /\ ret'.value = Some(c)
                      /\ userConfigs'[u] = Some(c)
             /\ (userConfigs[u] = None /\ storedConfigs[u] = None) =>
                   /\ ~ret'.threw
                   /\ ret'.value = None
                   /\ userConfigs' = userConfigs

\* C21: updateUserConfig(c) sets the config of c.userId to c, in memory and
\* in storage, as a whole and within the call, and leaves the configs of the
\* other users as they are; getUserConfig(u) returns the config held in
\* memory, else the one stored under u, which it then holds in memory, and
\* null when nothing was ever written for u.
C21_ConfigRoundTrip == [][C21_Step]_vars

\* The positions of the held records that are not read.
Unread(h, l) == {i \in DOMAIN l : ~h[l[i]].obj.isRead}

C22_Step ==
    ret'.op = "markAllAsRead" =>
       /\ notifications' = notifications
       /\ DOMAIN heap' = DOMAIN heap
       /\ \A o \in Range(notifications) :
             heap'[o].obj = [heap[o].obj EXCEPT !.isRead = TRUE]
       /\ GetUnreadCount(heap', notifications') = 0

\* C22: markAllAsRead(userId), for any userId, sets isRead = true on every
\* record held and adds or removes none, so that getUnreadCount is 0 right
\* after it; and getUnreadCount is always the number of held records with
\* isRead = false, from 0 to 100.
C22_AllRead ==
    /\ [](/\ GetUnreadCount(heap, notifications) = Cardinality(Unread(heap, notifications))
          /\ GetUnreadCount(heap, notifications) \in 0..MaxNotifications)
    /\ [][C22_Step]_vars

\* markAllAsRead was called for the second user on a full collection with
\* unread records, after an append: all 100 records are read.
C22_Witness ==
    /\ ret.op = "markAllAsRead"
    /\ ret.arg = "farmer2"
    /\ appends > MaxNotifications
    /\ Len(notifications) = MaxNotifications
    /\ Unread(heap, notifications) = {}

\* The step is a call of the normalizer of adapter a.
Normalizes(a) == ret'.op = "createNotification" /\ ret'.arg.adapter = a

\* The step appended one record, at the head, and n is that record.
AppendedOne(n) ==
    /\ appends' = appends + 1
    /\ Len(notifications') > 0
    /\ Tail(notifications') = notifications
    /\ notifications'[1] \notin DOMAIN heap
    /\ heap'[notifications'[1]].obj = n

\* The channel entries are c1 then c2, both enabled and not yet delivered.
FreshChannels(n, c1, c2) ==
    /\ Len(n.deliveryChannels) = 2
    /\ n.deliveryChannels[1].channel = c1
    /\ n.deliveryChannels[2].channel = c2
    /\ \A j \in 1..2 :
          /\ n.deliveryChannels[j].enabled
          /\ ~n.deliveryChannels[j].delivered
          /\ n.deliveryChannels[j].deliveredAt = Undefined
          /\ n.deliveryChannels[j].error = Undefined

C23_Step ==
    Normalizes("weather") =>
       \E o \in DOMAIN heap' :
          LET n == heap'[o].obj
              alert == ret'.arg.event
          IN /\ AppendedOne(n)
             /\ n.type = "weather"
             /\ alert.severity = "extreme" =>
                   n.category = "alert" /\ n.priority = "critical"
             /\ alert.severity \in {"minor", "moderate", "severe"} =>
                   n.category = "warning" /\ n.priority = "high"
             /\ n.expiresAt = alert.endTime
             /\ n.actionRequired
             /\ ~n.isRead
             /\ FreshChannels(n, "push", "in-app")

\* C23: createNotificationFromWeatherAlert appends one notification of type
\* 'weather', with category 'alert' and priority 'critical' for severity
\* 'extreme' and category 'warning' and priority 'high' for minor, moderate
\* and severe, expiresAt the alert's endTime, actionRequired true, isRead
\* false and the channels push then in-app, enabled and not yet delivered.
C23_Weather == [][C23_Step]_vars

\* An extreme alert and a severe one have been normalized: the store holds a
\* critical weather alert and a high weather warning.
C23_Witness ==
    /\ \E o \in Range(notifications) :
          /\ heap[o].obj.type = "weather"
          /\ heap[o].obj.priority = "critical"
          /\ heap[o].obj.category = "alert"
          /\ heap[o].obj.expiresAt = DateOf(heap[o].obj.timestamp.t + Day)
    /\ \E o \in Range(notifications) :
          /\ heap[o].obj.type = "weather"
          /\ heap[o].obj.priority = "high"
          /\ heap[o].obj.category = "warning"

C24_Step ==
    Normalizes("price") =>
       \E o \in DOMAIN heap' :
          LET n == heap'[o].obj
              c == ret'.arg.event.changePercentage
              size == IF c < 0 THEN 0 - c ELSE c
          IN /\ AppendedOne(n)
             /\ n.type = "price"
             /\ n.category = "alert" <=> size > 10
             /\ n.category = "info" <=> size <= 10
             /\ n.priority = "high" <=> size > 15
             /\ n.priority = "medium" <=> size <= 15
             /\ c \in {12, -12, 15} => n.category = "alert" /\ n.priority = "medium"
             /\ c = 10 => n.category = "info" /\ n.priority = "medium"
             /\ c = 16 => n.category = "alert" /\ n.priority = "high"
             /\ n.actionRequired
             /\ FreshChannels(n, "push", "in-app")

\* C24: createNotificationFromPriceAlert appends one notification of type
\* 'price', with category 'alert' iff |changePercentage| > 10, else 'info',
\* and priority 'high' iff |changePercentage| > 15, else 'medium': 12 and
\* -12 give alert/medium, 10 gives info/medium, 15 gives alert/medium, 16
\* gives alert/high; actionRequired is true and the channels are push then
\* in-app, enabled.
C24_Price == [][C24_Step]_vars

\* A fall of 12 percent has just been normalized to an alert of medium
\* priority, and the store holds an info record as well (a change of 10).
C24_Witness ==
    /\ ret.op = "createNotification"
    /\ ret.arg.adapter = "price"
    /\ ret.arg.event.changePercentage = -12
    /\ heap[notifications[1]].obj.category = "alert"
    /\ heap[notifications[1]].obj.priority = "medium"
    /\ \E o \in Range(notifications) : heap[o].obj.category = "info"

C25_Step ==
    Normalizes("government") =>
       \E o \in DOMAIN heap' :
          LET n == heap'[o].obj
              update == ret'.arg.event
          IN /\ AppendedOne(n)
             /\ n.type = "government"
             /\ n.category = "update"
             /\ update.deadline # Undefined =>
                   /\ n.priority = "high"
                   /\ n.actionRequired
                   /\ n.expiresAt = update.deadline
             /\ update.deadline = Undefined =>
                   /\ n.priority = "medium"
                   /\ ~n.actionRequired
                   /\ n.expiresAt = Undefined
             /\ FreshChannels(n, "push", "in-app")

\* C25: createNotificationFromGovernmentUpdate appends one notification of
\* type 'government' and category 'update'; with a deadline its priority is
\* 'high', actionRequired is true and expiresAt is the deadline; without
\* one its priority is 'medium', actionRequired is false and expiresAt is
\* absent; the channels are push then in-app, enabled.
C25_Government == [][C25_Step]_vars

\* An update with a deadline and one without have been normalized.
C25_Witness ==
    /\ \E o \in Range(notifications) :
          /\ heap[o].obj.type = "government"
          /\ heap[o].obj.actionRequired
          /\ heap[o].obj.priority = "high"
          /\ heap[o].obj.expiresAt = DateOf(heap[o].obj.timestamp.t + DeadlineDays * Day)
    /\ \E o \in Range(notifications) :
          /\ heap[o].obj.type = "government"
          /\ ~heap[o].obj.actionRequired
          /\ heap[o].obj.priority = "medium"
          /\ heap[o].obj.expiresAt = Undefined

\* The notifications held, by the append that made them, that are read.
ReadHeld(h, l) == {h[o].seq : o \in {p \in Range(l) : h[p].obj.isRead}}

\* The notifications held, by the append that made them.
Held(h, l) == {h[o].seq : o \in Range(l)}

C26_Step ==
    /\ \A k \in ReadHeld(heap, notifications) \cap Held(heap', notifications') :
          k \in ReadHeld(heap', notifications')
    /\ GetUnreadCount(heap', notifications') > GetUnreadCount(heap, notifications) =>
          /\ appends' = appends + 1
          /\ GetUnreadCount(heap', notifications')
                = GetUnreadCount(heap, notifications) + 1

\* C26: a held notification that is read stays read for as long as it is
\* held, whatever the service does, and getUnreadCount rises only in a step
\* that appends a notification, and then by one.
C26_ReadMonotonic == [][C26_Step]_vars

C29_Step ==
    ret'.op = "initialize" =>
       /\ ~ret'.threw
       /\ Held(heap, notifications) \subseteq Held(heap', notifications')
       /\ \A i, j \in DOMAIN notifications' :
             i < j => heap'[notifications'[i]].obj.timestamp.t
                         >= heap'[notifications'[j]].obj.timestamp.t
       /\ (storedNotifications = None \/ ret'.arg) =>
             notifications' = notifications /\ heap' = heap

\* C29: initialize() raises no error and loses no notification held in
\* memory: every notification held before the call is held after it, the
\* collection is most recent first, and when nothing is stored or the read
\* fails the collection is left as it was.
C29_InitializeKeeps == [][C29_Step]_vars

\* C27: in every state no channel entry has both delivered = true and an
\* error, a delivered entry has its deliveredAt, and an entry with
\* enabled = false has delivered = false, no deliveredAt and no error; once
\* the dispatch of a notification has ended, every enabled entry of the
\* object that was dispatched was attempted exactly once and is in exactly
\* one of two outcomes: delivered with deliveredAt and no error, or not
\* delivered with an error and no deliveredAt.
Succeeded(entry) ==
    entry.delivered /\ entry.deliveredAt # Undefined /\ entry.error = Undefined

Failed(entry) ==
    ~entry.delivered /\ entry.error # Undefined /\ entry.deliveredAt = Undefined

C27_Outcomes ==
    \A e \in Entries(heap) :
        LET entry == EntryOf(heap, e)
        IN /\ ~(entry.delivered /\ entry.error # Undefined)
           /\ entry.delivered => entry.deliveredAt # Undefined
           /\ ~entry.enabled =>
                 /\ ~entry.delivered
                 /\ entry.deliveredAt = Undefined
                 /\ entry.error = Undefined
           /\ (entry.enabled /\ Dispatched(heap, announced, e[1])) =>
                 /\ AttemptOf(heap, e).count = 1
                 /\ Succeeded(entry) # Failed(entry)

\* A dispatched notification with one entry in each outcome: its push threw
\* and the entry after it went through.
C27_Witness ==
    \E o \in DOMAIN heap :
        LET chs == heap[o].obj.deliveryChannels
        IN /\ Dispatched(heap, announced, o)
           /\ Len(chs) = 2
           /\ chs[1].enabled /\ chs[1].channel = "push" /\ Failed(chs[1])
           /\ chs[2].enabled /\ Succeeded(chs[2])

\* C28: the step that emits 'newNotification' for a notification leaves a
\* record of that notification in the collection, and a step that changes
\* the channel entries of a notification does so while a record of it is in
\* the collection: nothing is announced or updated that is no longer held.
HeldSeq(h, l, k) == \E i \in DOMAIN l : h[l[i]].seq = k

C28_Step ==
    /\ \A k \in DOMAIN announced' :
          (IF k \in DOMAIN announced THEN announced'[k] > announced[k]
                                     ELSE announced'[k] > 0)
          => HeldSeq(heap', notifications', k)
    /\ \A o \in DOMAIN heap \cap DOMAIN heap' :
          heap'[o].obj.deliveryChannels # heap[o].obj.deliveryChannels
          => HeldSeq(heap', notifications', heap[o].seq)

C28_AnnouncedHeld == [][C28_Step]_vars

\* C30: what getNotificationAnalytics returns are percentages:
\* totalDelivered <= totalSent, totalRead <= totalDelivered, deliveryRate
\* and readRate between 0 and 100, and delivered <= sent and
\* read <= delivered in every group of byType and byPriority.
Ordered(triple) ==
    triple.delivered <= triple.sent /\ triple.read <= triple.delivered

WithinHundred(rate) == 0 <= rate.num /\ rate.num <= 100 * rate.den

C30_Percentages ==
    ret.op = "getNotificationAnalytics" =>
       /\ Ordered([sent |-> ret.value.totalSent,
                   delivered |-> ret.value.totalDelivered,
                   read |-> ret.value.totalRead])
       /\ WithinHundred(ret.value.deliveryRate)
       /\ WithinHundred(ret.value.readRate)
       /\ \A v \in DOMAIN ret.value.byType.count :
             Ordered(ret.value.byType.count[v])
       /\ \A v \in DOMAIN ret.value.byPriority.count :
             Ordered(ret.value.byPriority.count[v])
====
